---- MODULE Spec2Model ----
(***************************************************************************)
(* A model of scraper.py: the age normaliser, the location classifier, the *)
(* table extractor, the publish flow and the age-refresh flow.             *)
(*                                                                         *)
(* A Python string is a sequence of one-character strings, so that the     *)
(* string operations of the code (strip, lower, re.sub, replace, re.match) *)
(* are computed character by character.                                    *)
(***************************************************************************)
EXTENDS Integers, Sequences, FiniteSets, TLC

VARIABLES
    \* ---- age normaliser harness
    age_str,        \* the argument of parse_age_to_days (None or a string)
    age_out,        \* its result (None until the call returns)
    \* ---- table extractor harness
    section_md,     \* the parsed fragment: the nodes of the soup in document order
    extract_pc,     \* "call" before extract_jobs_from_tables is called, then "done"
    jobs,           \* the result of extract_jobs_from_tables
    jobs_from,      \* observation: the row (tr node) each job was made from
    \* ---- the process (main) and what it talks to
    pc,             \* position of the process in main / update_all_pages_age
    argv,           \* sys.argv[1:]
    webhook,        \* SLACK_WEBHOOK_URL is configured
    readme,         \* the rows of the table the source document holds
    disk,           \* seen.json: None when the file is absent, else its list
    store,          \* the remote record store: its pages, page k having id k
    seen,           \* main: seen
    jobs_all,       \* main: jobs_all
    new_items,      \* main: new_items
    job_ix,         \* main: position in new_items of the job being published
    created,        \* main: created
    pages,          \* fetch_notion_pages / update_all_pages_age: pages
    start_cursor,   \* fetch_notion_pages: start_cursor (0 for None)
    github_jobs,    \* update_all_pages_age: github_jobs
    page_ix,        \* update_all_pages_age: position in pages
    updated_count,  \* update_all_pages_age: updated_count
    error_count,    \* update_all_pages_age: error_count
    not_found_count,\* update_all_pages_age: not_found_count
    \* ---- observation of the run (history, never read by the program)
    run,            \* number of the current process run
    prev_saved,     \* the previous run called save_seen
    disk0,          \* seen.json as it was when the current run started
    writes,         \* save_seen calls of the current run
    creates,        \* the jobs whose create-record call succeeded, this run
    notified,       \* notify() calls, this run
    posts,          \* webhook posts attempted, this run
    last_call,      \* the last external call of this run and whether it succeeded
    patches         \* update-record calls issued, this run: page position, id,
                    \* age sent, and whether the call succeeded

vars == <<age_str, age_out, section_md, extract_pc, jobs, jobs_from, pc, argv,
          webhook, readme, disk, store, seen, jobs_all, new_items, job_ix,
          created, pages, start_cursor, github_jobs, page_ix, updated_count,
          error_count, not_found_count, run, prev_saved, disk0, writes, creates,
          notified, posts, last_call, patches>>

\* Python's None, where a string may stand: no string has this as a character
None == <<"None">>

(***************************************************************************)
(* Python strings                                                          *)
(***************************************************************************)
Digits == {"0", "1", "2", "3", "4", "5", "6", "7", "8", "9"}

Lowers == {"a", "b", "c", "d", "e", "f", "g", "h", "i", "j", "k", "l", "m",
           "n", "o", "p", "q", "r", "s", "t", "u", "v", "w", "x", "y", "z"}

Uppers == {"A", "B", "C", "D", "E", "F", "G", "H", "I", "J", "K", "L", "M",
           "N", "O", "P", "Q", "R", "S", "T", "U", "V", "W", "X", "Y", "Z"}

LowerOf == [c \in Uppers |->
    CASE c = "A" -> "a" [] c = "B" -> "b" [] c = "C" -> "c" [] c = "D" -> "d"
      [] c = "E" -> "e" [] c = "F" -> "f" [] c = "G" -> "g" [] c = "H" -> "h"
      [] c = "I" -> "i" [] c = "J" -> "j" [] c = "K" -> "k" [] c = "L" -> "l"
      [] c = "M" -> "m" [] c = "N" -> "n" [] c = "O" -> "o" [] c = "P" -> "p"
      [] c = "Q" -> "q" [] c = "R" -> "r" [] c = "S" -> "s" [] c = "T" -> "t"
      [] c = "U" -> "u" [] c = "V" -> "v" [] c = "W" -> "w" [] c = "X" -> "x"
      [] c = "Y" -> "y" [] c = "Z" -> "z"]

Whitespace == {" ", "\n", "\t"}

LowerChar(c) == IF c \in Uppers THEN LowerOf[c] ELSE c

\* str.lower()
lower(s) == [k \in 1..Len(s) |-> LowerChar(s[k])]

RECURSIVE lstrip(_)
lstrip(s) == IF s # <<>> /\ Head(s) \in Whitespace THEN lstrip(Tail(s)) ELSE s

RECURSIVE rstrip(_)
rstrip(s) ==
    IF s # <<>> /\ s[Len(s)] \in Whitespace
    THEN rstrip(SubSeq(s, 1, Len(s) - 1))
    ELSE s

\* str.strip()
strip(s) == rstrip(lstrip(s))

\* s.startswith(t)
startswith(s, t) == Len(t) <= Len(s) /\ SubSeq(s, 1, Len(t)) = t

\* str.replace(old, new), old not empty: leftmost occurrences, not overlapping
RECURSIVE replace(_, _, _)
replace(s, old, new) ==
    IF s = <<>> THEN <<>>
    ELSE IF startswith(s, old)
         THEN new \o replace(SubSeq(s, Len(old) + 1, Len(s)), old, new)
         ELSE <<Head(s)>> \o replace(Tail(s), old, new)

\* the characters [\dA-Za-z]
AlnumChars == Digits \cup Lowers \cup Uppers

\* re.sub(r"[^\dA-Za-z]", "", s)
RemoveNonAlnum(s) == SelectSeq(s, LAMBDA c : c \in AlnumChars)

\* the length of the longest prefix of s made of digits
RECURSIVE DigitPrefix(_)
DigitPrefix(s) ==
    IF s # <<>> /\ Head(s) \in Digits THEN 1 + DigitPrefix(Tail(s)) ELSE 0

DigitValue == [c \in Digits |->
    CASE c = "0" -> 0 [] c = "1" -> 1 [] c = "2" -> 2 [] c = "3" -> 3
      [] c = "4" -> 4 [] c = "5" -> 5 [] c = "6" -> 6 [] c = "7" -> 7
      [] c = "8" -> 8 [] c = "9" -> 9]

DigitChar == [n \in 0..9 |-> CHOOSE c \in Digits : DigitValue[c] = n]

\* int(s), s a non-empty sequence of digits
RECURSIVE int(_)
int(s) ==
    IF s = <<>> THEN 0
    ELSE 10 * int(SubSeq(s, 1, Len(s) - 1)) + DigitValue[s[Len(s)]]

\* str(n), n >= 0
RECURSIVE str(_)
str(n) == IF n < 10 THEN <<DigitChar[n]>> ELSE str(n \div 10) \o <<DigitChar[n % 10]>>

(***************************************************************************)
(* parse_age_to_days                                                       *)
(***************************************************************************)
\* lines 86-88: strip, lower, remove the non-alphanumerics
CleanAge(age) == RemoveNonAlnum(lower(strip(age)))

\* lines 91-94: the chain of replace calls, in the order of the code
NormalizeUnits(s0) ==
    LET s1 == replace(replace(s0, <<"m","o","n","t","h","s">>, <<"m","o">>),
                      <<"m","o","n","t","h">>, <<"m","o">>)
        s2 == replace(replace(s1, <<"w","e","e","k","s">>, <<"w">>),
                      <<"w","e","e","k">>, <<"w">>)
        s3 == replace(replace(s2, <<"d","a","y","s">>, <<"d">>),
                      <<"d","a","y">>, <<"d">>)
        s4 == replace(replace(s3, <<"h","o","u","r","s">>, <<"h">>),
                      <<"h","o","u","r">>, <<"h">>)
    IN  replace(replace(s4, <<"h","r","s">>, <<"h">>), <<"h","r">>, <<"h">>)

AgeUnits == {<<"m","o">>, <<"w">>, <<"d">>, <<"h">>}

\* line 96: re.match(r"^(\d+)(mo|w|d|h)$", s): whether it matches, and the two groups
MatchAge(s) ==
    LET k == DigitPrefix(s)
    IN  IF k >= 1 /\ SubSeq(s, k + 1, Len(s)) \in AgeUnits
        THEN [matched |-> TRUE, qty |-> SubSeq(s, 1, k), unit |-> SubSeq(s, k + 1, Len(s))]
        ELSE [matched |-> FALSE, qty |-> <<>>, unit |-> <<>>]

\* a month taken as 31 days
DaysOfBroken(qty, unit) ==
    CASE unit = <<"h">> -> 0
      [] unit = <<"d">> -> qty
      [] unit = <<"w">> -> qty * 7
      [] unit = <<"m","o">> -> qty * 31

\* lines 103-113: the days of qty units
DaysOf(qty, unit) ==
    CASE unit = <<"h">> -> 0
      [] unit = <<"d">> -> qty
      [] unit = <<"w">> -> qty * 7
      [] unit = <<"m","o">> -> qty * 30

parse_age_to_days(age) ==
    IF age = None \/ age = <<>> THEN <<"0", "d">>
    ELSE LET m == MatchAge(NormalizeUnits(CleanAge(age)))
         IN  IF ~m.matched THEN <<"0", "d">>
             ELSE str(DaysOf(int(m.qty), m.unit)) \o <<"d">>

(***************************************************************************)
(* looks_like_nyc                                                          *)
(***************************************************************************)
\* \w of the regular expressions
WordChars == AlnumChars \cup {"_"}

IsWordChar(c) == c \in WordChars

\* \b between text[k] and text[k+1] (k = 0: the start, k = Len(text): the end)
WordBoundary(text, k) ==
    LET before == k >= 1 /\ IsWordChar(text[k])
        after == k < Len(text) /\ IsWordChar(text[k + 1])
    IN  before # after

\* the literal lit stands at text[k..], letter case ignored (flags=re.I)
LiteralAt(text, k, lit) ==
    /\ k >= 1 /\ k + Len(lit) - 1 <= Len(text)
    /\ \A m \in 1..Len(lit) : LowerChar(text[k + m - 1]) = LowerChar(lit[m])

\* re.search(r"\b<lit>\b", text, flags=re.I)
SearchWord(text, lit) ==
    \E k \in 1..Len(text) :
        /\ LiteralAt(text, k, lit)
        /\ WordBoundary(text, k - 1)
        /\ WordBoundary(text, k + Len(lit) - 1)

\* re.search(r"\nyc\b", text, flags=re.I): a line feed, then "yc"
SearchLineFeedYc(text) ==
    \E k \in 1..Len(text) :
        /\ LiteralAt(text, k, <<"\n", "y", "c">>)
        /\ WordBoundary(text, k + 2)

\* re.search(r"\bNew York[, ]+NY\b", text, flags=re.I)
SearchNewYorkNY(text) ==
    \E k \in 1..Len(text) : \E j \in (k + 9)..Len(text) :
        /\ LiteralAt(text, k, <<"N","e","w"," ","Y","o","r","k">>)
        /\ WordBoundary(text, k - 1)
        /\ \A m \in (k + 8)..(j - 1) : text[m] \in {",", " "}
        /\ LiteralAt(text, j, <<"N","Y">>)
        /\ WordBoundary(text, j + 1)

\* lines 15-26 and 70-76
looks_like_nyc(text) ==
    IF text = None \/ text = <<>> THEN FALSE
    ELSE \/ SearchWord(text, <<"N","Y","C">>)
         \/ SearchWord(text, <<"N","Y">>)
         \/ SearchLineFeedYc(text)
         \/ SearchWord(text, <<"N","e","w"," ","Y","o","r","k">>)
         \/ SearchNewYorkNY(text)
         \/ SearchWord(text, <<"M","a","n","h","a","t","t","a","n">>)
         \/ SearchWord(text, <<"B","r","o","o","k","l","y","n">>)
         \/ SearchWord(text, <<"Q","u","e","e","n","s">>)
         \/ SearchWord(text, <<"B","r","o","n","x">>)
         \/ SearchWord(text, <<"S","t","a","t","e","n"," ","I","s","l","a","n","d">>)

(***************************************************************************)
(* The parsed fragment (BeautifulSoup(section_md, "html.parser")).         *)
(* The soup is the sequence of its nodes in document order; a node has a   *)
(* name ("#text" for a string), its depth below the soup, the href         *)
(* attribute (None when it has none) and, for a string, its text.          *)
(***************************************************************************)
Min(S) == CHOOSE x \in S : \A y \in S : x <= y

\* the last node of the subtree of node n
End(soup, n) ==
    LET later == {j \in (n + 1)..Len(soup) : soup[j].depth <= soup[n].depth}
    IN  IF later = {} THEN Len(soup) ELSE Min(later) - 1

\* node.parents, as a set
Parents(soup, n) ==
    {a \in 1..(n - 1) : soup[a].depth < soup[n].depth /\ End(soup, a) >= n}

\* the nodes named name among lo..hi, in document order
RECURSIVE NamedIn(_, _, _, _)
NamedIn(soup, lo, hi, name) ==
    IF lo > hi THEN <<>>
    ELSE (IF soup[lo].name = name THEN <<lo>> ELSE <<>>)
         \o NamedIn(soup, lo + 1, hi, name)

\* node.find_all(name): every descendant of that name, at any depth
find_all(soup, n, name) == NamedIn(soup, n + 1, End(soup, n), name)

\* line 58-59: re.sub(r"\s+", " ", s or "").strip()
RECURSIVE CollapseWhitespace(_)
CollapseWhitespace(s) ==
    IF s = <<>> THEN <<>>
    ELSE IF Head(s) \in Whitespace
         THEN <<" ">> \o CollapseWhitespace(lstrip(s))
         ELSE <<Head(s)>> \o CollapseWhitespace(Tail(s))

normalize_whitespace(s) == strip(CollapseWhitespace(IF s = None THEN <<>> ELSE s))

\* get_text(" ", strip=True) over lo..hi once every br is replaced by " | ":
\* the strings, stripped, the empty ones left out, joined by one space
RECURSIVE TextPieces(_, _, _)
TextPieces(soup, lo, hi) ==
    IF lo > hi THEN <<>>
    ELSE LET piece == IF soup[lo].name = "br" THEN strip(<<" ", "|", " ">>)
                      ELSE IF soup[lo].name = "#text" THEN strip(soup[lo].text)
                      ELSE <<>>
         IN  (IF piece = <<>> THEN <<>> ELSE <<piece>>)
             \o TextPieces(soup, lo + 1, hi)

RECURSIVE JoinWith(_, _)
JoinWith(pieces, sep) ==
    IF pieces = <<>> THEN <<>>
    ELSE IF Len(pieces) = 1 THEN Head(pieces)
    ELSE Head(pieces) \o sep \o JoinWith(Tail(pieces), sep)

\* lines 61-64
td_text(soup, td) ==
    normalize_whitespace(JoinWith(TextPieces(soup, td + 1, End(soup, td)), <<" ">>))

\* lines 66-68: the href of the first anchor that has one, stripped
first_href(soup, td) ==
    LET anchors == SelectSeq(find_all(soup, td, "a"),
                             LAMBDA j : soup[j].href # None)
    IN  IF anchors = <<>> THEN None ELSE strip(soup[anchors[1]].href)

\* the decorative indent glyph of line 149 (U+21B3), written as one character
IndentGlyph == <<"^">>

\* line 132: some parent of the table is a details element
InsideDetails(soup, n) == \E a \in Parents(soup, n) : soup[a].name = "details"

\* lines 128-135
extract_active_tables(soup) ==
    SelectSeq(NamedIn(soup, 1, Len(soup), "table"),
              LAMBDA t : ~InsideDetails(soup, t))

\* line 145: a row of fewer cells is skipped
MinCells == 5

\* lines 140-146: the rows of one table that yield a job, in order
TableRows(soup, table) ==
    LET tbodies == find_all(soup, table, "tbody")
    IN  IF tbodies = <<>> THEN <<>>
        ELSE SelectSeq(find_all(soup, tbodies[1], "tr"),
                       LAMBDA tr : Len(find_all(soup, tr, "td")) >= MinCells)

\* lines 139-146: the rows that yield a job, table after table
RECURSIVE RowsOfTables(_, _)
RowsOfTables(soup, tables) ==
    IF tables = <<>> THEN <<>>
    ELSE TableRows(soup, Head(tables)) \o RowsOfTables(soup, Tail(tables))

JobRows(soup) == RowsOfTables(soup, extract_active_tables(soup))

\* lines 148-162: the job of one row
JobOfRow(soup, tr) ==
    LET tds == find_all(soup, tr, "td")
        age == td_text(soup, tds[5])
    IN  [company |-> strip(replace(td_text(soup, tds[1]), IndentGlyph, <<>>)),
         title |-> td_text(soup, tds[2]),
         url |-> first_href(soup, tds[4]),
         location |-> replace(td_text(soup, tds[3]), <<"|">>, <<",">>),
         age |-> age,
         age_days |-> parse_age_to_days(age)]

\* lines 137-163
extract_jobs_from_tables(soup) ==
    LET rows == JobRows(soup)
    IN  [k \in 1..Len(rows) |-> JobOfRow(soup, rows[k])]

(***************************************************************************)
(* The variables of the parts a specification does not exercise            *)
(***************************************************************************)
ageVars == <<age_str, age_out>>

extractVars == <<section_md, extract_pc, jobs, jobs_from>>

flowVars == <<pc, argv, webhook, readme, disk, store, seen, jobs_all, new_items,
              job_ix, created, pages, start_cursor, github_jobs, page_ix,
              updated_count, error_count, not_found_count, run, prev_saved,
              disk0, writes, creates, notified, posts, last_call, patches>>

AgeIdle == age_str = None /\ age_out = None

ExtractIdle ==
    section_md = <<>> /\ extract_pc = "idle" /\ jobs = <<>> /\ jobs_from = <<>>

NoCall == [op |-> "none", ok |-> TRUE]

FlowIdle ==
    /\ pc = "idle" /\ argv = <<>> /\ webhook = FALSE /\ readme = <<>>
    /\ disk = None /\ store = <<>> /\ seen = {}
    /\ jobs_all = <<>> /\ new_items = <<>> /\ job_ix = 1 /\ created = 0
    /\ pages = <<>> /\ start_cursor = 0 /\ github_jobs = <<>> /\ page_ix = 1
    /\ updated_count = 0 /\ error_count = 0 /\ not_found_count = 0
    /\ run = 1 /\ prev_saved = FALSE /\ disk0 = None /\ writes = 0
    /\ creates = <<>> /\ notified = 0 /\ posts = 0 /\ last_call = NoCall
    /\ patches = <<>>

(***************************************************************************)
(* The age normaliser on its own: every input built from at most           *)
(* MaxAgeParts pieces, and one call of parse_age_to_days.                  *)
(***************************************************************************)
MaxAgeParts == 3

AgePieces ==
    { <<"0">>, <<"1">>, <<"2">>, <<"3">>, <<"5">>,
      <<"m","o">>, <<"w">>, <<"d">>, <<"h">>,
      <<"m","o","n","t","h","s">>, <<"m","o","n","t","h">>,
      <<"w","e","e","k","s">>, <<"w","e","e","k">>,
      <<"d","a","y","s">>, <<"d","a","y">>,
      <<"h","o","u","r","s">>, <<"h","o","u","r">>,
      <<"h","r","s">>, <<"h","r">>,
      <<" ">>, <<"#">>, <<"D">>, <<"s">> }

RECURSIVE Concat(_)
Concat(parts) == IF parts = <<>> THEN <<>> ELSE Head(parts) \o Concat(Tail(parts))

AgeInit ==
    /\ \/ age_str = None
       \/ \E n \in 0..MaxAgeParts : \E parts \in [1..n -> AgePieces] :
             age_str = Concat(parts)
    /\ age_out = None
    /\ ExtractIdle /\ FlowIdle

CallParseAge ==
    /\ age_out = None
    /\ age_out' = parse_age_to_days(age_str)
    /\ UNCHANGED <<age_str, extractVars, flowVars>>

AgeNext == CallParseAge

SpecAge == AgeInit /\ [][AgeNext]_vars

(***************************************************************************)
(* The table extractor on its own: a fragment holding one table, whose     *)
(* location cell may hold a further table, up to MaxNest levels deep, each *)
(* table directly or inside a details element; one call of                 *)
(* extract_jobs_from_tables.                                               *)
(***************************************************************************)
MaxNest == 1

MaxCells == 6

Elem(name, d) == [name |-> name, depth |-> d, href |-> None, text |-> <<>>]

Anchor(d, href) == [name |-> "a", depth |-> d, href |-> href, text |-> <<>>]

Txt(d, s) == [name |-> "#text", depth |-> d, href |-> None, text |-> s]

\* the nodes, k levels deeper
Shift(nodes, k) ==
    [j \in 1..Len(nodes) |-> [nodes[j] EXCEPT !.depth = nodes[j].depth + k]]

\* <td>s</td>
Cell(s) == <<Elem("td", 0), Txt(1, s)>>

\* <td><a href=url>Apply</a></td>, or <td>Closed</td> when url is None
LinkCell(url) ==
    IF url = None THEN Cell(<<"C","l","o","s","e","d">>)
    ELSE <<Elem("td", 0), Anchor(1, url), Txt(2, <<"A","p","p","l","y">>)>>

\* <td>first<br>second inner</td>: the location cell, inner the nodes nested in it
LocationCell(loc, inner) ==
    <<Elem("td", 0)>>
    \o (IF loc.first = <<>> THEN <<>> ELSE <<Txt(1, loc.first)>>)
    \o (IF loc.second = <<>> THEN <<>> ELSE <<Elem("br", 1), Txt(1, loc.second)>>)
    \o Shift(inner, 1)

\* <tr> with n cells: company, title, location, link, age, then empty cells
RowNodes(row, n, inner) ==
    LET cells == <<Cell(row.company), Cell(row.title),
                   LocationCell(row.location, inner),
                   LinkCell(row.url), Cell(row.age)>>
    IN  <<Elem("tr", 0)>>
        \o Shift(Concat([k \in 1..n |-> IF k <= 5 THEN cells[k] ELSE <<Elem("td", 0)>>]), 1)

\* <table><tbody>rows</tbody></table>, or the rows directly under the table
TableNodes(tbody, rows) ==
    IF tbody THEN <<Elem("table", 0), Elem("tbody", 1)>> \o Shift(rows, 2)
    ELSE <<Elem("table", 0)>> \o Shift(rows, 1)

\* <details>nodes</details>
DetailsNodes(nodes) == <<Elem("details", 0)>> \o Shift(nodes, 1)

\* the row written in the table at a nesting level: its company names the level
LevelRow(level, url) ==
    [company |-> <<"^", " ", "L">> \o str(level),
     title |-> <<"S","W","E">>,
     url |-> url,
     location |-> [first |-> <<"N","Y","C">>, second |-> <<"S","F">>],
     age |-> <<"2"," ","w","e","e","k","s">>]

LevelUrls(level) == IF level = 0 THEN {None, <<" ","u","0">>} ELSE {<<"u">> \o str(level)}

\* the tables of a nesting level, each as it is or wrapped in a details element
RECURSIVE Blocks(_)
Blocks(level) ==
    LET inners == IF level >= MaxNest THEN {<<>>} ELSE {<<>>} \cup Blocks(level + 1)
        tables == { TableNodes(tbody, RowNodes(LevelRow(level, url), n, inner)) :
                      tbody \in BOOLEAN, n \in 4..MaxCells,
                      url \in LevelUrls(level), inner \in inners }
    IN  tables \cup { DetailsNodes(t) : t \in tables }

Fragments == {<<>>} \cup Blocks(0)

ExtractInit ==
    /\ section_md \in Fragments
    /\ extract_pc = "call" /\ jobs = <<>> /\ jobs_from = <<>>
    /\ AgeIdle /\ FlowIdle

CallExtract ==
    /\ extract_pc = "call"
    /\ jobs' = extract_jobs_from_tables(section_md)
    /\ jobs_from' = JobRows(section_md)
    /\ extract_pc' = "done"
    /\ UNCHANGED <<section_md, ageVars, flowVars>>

ExtractNext == CallExtract

SpecExtract == ExtractInit /\ [][ExtractNext]_vars

(***************************************************************************)
(* C8                                                                      *)
(***************************************************************************)
\* the row lies inside a details element
RowInsideDetails(soup, tr) == \E a \in Parents(soup, tr) : soup[a].name = "details"

\* C8: no job returned by the extraction comes from a table row that lies inside
\* a details element, whatever the nesting of tables and details elements
\* (including a details block placed inside a cell of a top-level table).
C8_NoRowFromDetails ==
    extract_pc = "done" =>
        \A k \in 1..Len(jobs_from) : ~RowInsideDetails(section_md, jobs_from[k])

\* the same for the tables whose own chain of parents up to the soup holds no
\* other table: there the exclusion does hold
C8_TopLevelDetailsExcluded ==
    extract_pc = "done" =>
        \A k \in 1..Len(jobs_from) :
            LET tr == jobs_from[k]
                tabs == {a \in Parents(section_md, tr) : section_md[a].name = "table"}
            IN  Cardinality(tabs) = 1 => ~RowInsideDetails(section_md, tr)

(***************************************************************************)
(* C9                                                                      *)
(***************************************************************************)
\* "<N>d", N a non-negative integer in decimal notation
IsDays(s) ==
    /\ Len(s) >= 2
    /\ s[Len(s)] = "d"
    /\ \A k \in 1..(Len(s) - 1) : s[k] \in Digits

\* the number a sequence of digits denotes, by its positional weights
RECURSIVE Pow10(_)
Pow10(n) == IF n = 0 THEN 1 ELSE 10 * Pow10(n - 1)

RECURSIVE SumWeights(_, _)
SumWeights(s, k) ==
    IF k > Len(s) THEN 0
    ELSE DigitValue[s[k]] * Pow10(Len(s) - k) + SumWeights(s, k + 1)

DaysIn(s) == SumWeights(SubSeq(s, 1, Len(s) - 1), 1)

\* the ratio of section 4.3 for a canonical unit
Ratio(u) == IF u = <<"h">> THEN 0 ELSE IF u = <<"d">> THEN 1
            ELSE IF u = <<"w">> THEN 7 ELSE 30

\* s is digits followed by exactly one canonical unit, the digits being s[1..k]
WellFormedAt(s, k) ==
    /\ k >= 1 /\ k < Len(s)
    /\ \A j \in 1..k : s[j] \in Digits
    /\ SubSeq(s, k + 1, Len(s)) \in AgeUnits

\* C9: the age normaliser returns "<N>d" for every input, absent, empty or any
\* string; "0d" when the input, lowercased, stripped of non-alphanumerics and
\* with its unit spelling normalised, is not digits followed by one of h, d, w,
\* mo; and otherwise 0 for h, N for d, 7*N for w, 30*N for mo ("2w" gives "14d",
\* "1mo" gives "30d", "23h" gives "0d", "5d" gives "5d").
C9_AgeNormalizerTotal ==
    age_out # None =>
        /\ IsDays(age_out)
        /\ (age_str = None \/ age_str = <<>>) => age_out = <<"0", "d">>
        /\ (age_str # None) =>
              LET s == NormalizeUnits(CleanAge(age_str))
              IN  /\ (~ \E k \in 1..Len(s) : WellFormedAt(s, k))
                        => age_out = <<"0", "d">>
                  /\ \A k \in 1..Len(s) : WellFormedAt(s, k) =>
                        /\ DaysIn(age_out)
                             = Ratio(SubSeq(s, k + 1, Len(s)))
                                 * SumWeights(SubSeq(s, 1, k), 1)
                        /\ (Len(age_out) > 2 => age_out[1] # "0")
        /\ age_str = <<"2", "w">> => age_out = <<"1", "4", "d">>
        /\ age_str = <<"1", "m", "o">> => age_out = <<"3", "0", "d">>
        /\ age_str = <<"2", "3", "h">> => age_out = <<"0", "d">>
        /\ age_str = <<"5", "d">> => age_out = <<"5", "d">>

\* an age with a space and a spelled-out unit was converted
C9_Witness ==
    /\ age_str = <<"2", " ", "w", "e", "e", "k", "s">>
    /\ age_out = <<"1", "4", "d">>

(***************************************************************************)
(* The ledger file                                                         *)
(***************************************************************************)
\* the characters of the urls, in code point order
CodePoints == <<" ", "0", "1", "2", "3", "4", "5", "6", "7", "8", "9",
                "a", "b", "c", "u", "z">>

Ord(c) == CHOOSE k \in 1..Len(CodePoints) : CodePoints[k] = c

\* s < t, as Python compares strings
RECURSIVE StrLess(_, _)
StrLess(s, t) ==
    IF t = <<>> THEN FALSE
    ELSE IF s = <<>> THEN TRUE
    ELSE IF Head(s) = Head(t) THEN StrLess(Tail(s), Tail(t))
    ELSE Ord(Head(s)) < Ord(Head(t))

\* sorted(list(S))
RECURSIVE sorted(_)
sorted(S) ==
    IF S = {} THEN <<>>
    ELSE LET least == CHOOSE x \in S : \A y \in S \ {x} : StrLess(x, y)
         IN  <<least>> \o sorted(S \ {least})

Range(f) == {f[k] : k \in DOMAIN f}

\* the ledger is read as empty whatever the file holds
load_seen_empty(file) == {}

\* lines 118-122: the set of the list in the file, the empty set without a file
load_seen(file) == IF file = None THEN {} ELSE Range(file)

\* lines 124-126: the file after save_seen(set)
save_seen(set) == sorted(set)

\* the source document as parsed after the fetch: one table, and a row of
\* five cells for each of its rows
ReadmeOf(rows) ==
    TableNodes(TRUE, Concat([k \in 1..Len(rows) |-> RowNodes(rows[k], 5, <<>>)]))

(***************************************************************************)
(* The publish flow (main)                                                 *)
(***************************************************************************)
\* the skip of an already published url is left out
SelectedIgnoringLedger(job, ledger) ==
    /\ ~(job.url = None \/ job.url = <<>>)
    /\ looks_like_nyc(job.location)

\* a title that names a degree programme is skipped as well
SelectedSkippingDegree(job, ledger) ==
    /\ ~(job.url = None \/ job.url = <<>>)
    /\ job.url \notin ledger
    /\ looks_like_nyc(job.location)
    /\ ~ \E k \in 1..Len(job.title) : LiteralAt(job.title, k, <<"P","h","D">>)

\* lines 329-335: the job goes into new_items
Selected(job, ledger) ==
    /\ ~(job.url = None \/ job.url = <<>>)
    /\ job.url \notin ledger
    /\ looks_like_nyc(job.location)

\* lines 172-173: the lengths the title and the company are cut to
TitleLimit == 100

CompanyLimit == 200

Truncate(t, n) == SubSeq(t, 1, IF Len(t) < n THEN Len(t) ELSE n)

\* lines 171-178: the page the store creates for the job; of the two "Age"
\* keys of the dict display the second one stands
PageOf(job, id) ==
    [id |-> id,
     title |-> Truncate(job.title, TitleLimit),
     company |-> Truncate(job.company, CompanyLimit),
     source_link |-> [type |-> "url", url |-> job.url],
     age |-> IF job.age_days = None \/ job.age_days = <<>> THEN <<"0", "d">>
             ELSE job.age_days,
     location |-> job.location]

Raised == {"raised_fetch", "raised_create", "raised_query", "raised_update",
           "raised_notify"}

\* the process has ended: main returned, or an exception left it
Ended == pc = "exit" \/ pc \in Raised

refreshVars == <<pages, start_cursor, github_jobs, page_ix, updated_count,
                 error_count, not_found_count, patches>>

publishVars == <<seen, jobs_all, new_items, job_ix, created>>

configVars == <<argv, webhook, readme, run, prev_saved, disk0>>

\* line 320
LoadSeen ==
    /\ pc = "main" /\ ~(Len(argv) > 0 /\ argv[1] = "--update-ages")
    /\ seen' = load_seen(disk)
    /\ pc' = "fetch"
    /\ UNCHANGED <<ageVars, extractVars, configVars, disk, store, jobs_all,
                   new_items, job_ix, created, refreshVars, writes, creates,
                   notified, posts, last_call>>

\* lines 321-337: the document is fetched, its rows extracted and filtered
FetchReadmeOk ==
    /\ pc = "fetch"
    /\ jobs_all' = extract_jobs_from_tables(ReadmeOf(readme))
    /\ new_items' = SelectSeq(jobs_all', LAMBDA job : Selected(job, seen))
    /\ job_ix' = 1
    /\ created' = 0
    /\ last_call' = [op |-> "fetch", ok |-> TRUE]
    /\ pc' = "publish"
    /\ UNCHANGED <<ageVars, extractVars, configVars, disk, store, seen,
                   refreshVars, writes, creates, notified, posts>>

\* lines 34-37: raise_for_status, or the transport, raises; main does not catch
FetchReadmeFail ==
    /\ pc = "fetch"
    /\ last_call' = [op |-> "fetch", ok |-> FALSE]
    /\ pc' = "raised_fetch"
    /\ UNCHANGED <<ageVars, extractVars, configVars, disk, store, publishVars,
                   refreshVars, writes, creates, notified, posts>>

\* line 339, lines 165-188: the record is created
CreatePageOk ==
    /\ pc = "publish" /\ job_ix <= Len(new_items)
    /\ store' = Append(store, PageOf(new_items[job_ix], Len(store) + 1))
    /\ creates' = Append(creates, new_items[job_ix])
    /\ last_call' = [op |-> "create", ok |-> TRUE]
    /\ pc' = "notify"
    /\ UNCHANGED <<ageVars, extractVars, configVars, disk, publishVars,
                   refreshVars, writes, notified, posts>>

\* the failure is swallowed and the loop goes on with the next job
CreatePageFailSwallowed ==
    /\ pc = "publish" /\ job_ix <= Len(new_items)
    /\ last_call' = [op |-> "create", ok |-> FALSE]
    /\ job_ix' = job_ix + 1
    /\ UNCHANGED <<ageVars, extractVars, configVars, disk, store, seen, jobs_all,
                   new_items, created, pc, refreshVars, writes, creates,
                   notified, posts>>

\* lines 184-187: the call raises; main does not catch, the process ends there
CreatePageFail ==
    /\ pc = "publish" /\ job_ix <= Len(new_items)
    /\ last_call' = [op |-> "create", ok |-> FALSE]
    /\ pc' = "raised_create"
    /\ UNCHANGED <<ageVars, extractVars, configVars, disk, store, publishVars,
                   refreshVars, writes, creates, notified, posts>>

\* notify without its try/except: a failed post leaves main
NotifyUncaught ==
    /\ pc = "notify"
    /\ notified' = notified + 1
    /\ \/ /\ ~webhook
          /\ UNCHANGED <<posts, last_call>>
          /\ seen' = seen \cup {new_items[job_ix].url}
          /\ created' = created + 1 /\ job_ix' = job_ix + 1 /\ pc' = "publish"
       \/ /\ webhook
          /\ posts' = posts + 1
          /\ \/ /\ last_call' = [op |-> "notify", ok |-> TRUE]
                /\ seen' = seen \cup {new_items[job_ix].url}
                /\ created' = created + 1 /\ job_ix' = job_ix + 1
                /\ pc' = "publish"
             \/ /\ last_call' = [op |-> "notify", ok |-> FALSE]
                /\ pc' = "raised_notify"
                /\ UNCHANGED <<seen, created, job_ix>>
    /\ UNCHANGED <<ageVars, extractVars, configVars, disk, store, jobs_all,
                   new_items, refreshVars, writes, creates>>

\* lines 340-342, lines 304-310: notify, whose post may fail and is then
\* ignored, then the url joins seen
Notify ==
    /\ pc = "notify"
    /\ notified' = notified + 1
    /\ \/ /\ ~webhook
          /\ UNCHANGED <<posts, last_call>>
       \/ /\ webhook
          /\ posts' = posts + 1
          /\ \E ok \in BOOLEAN : last_call' = [op |-> "notify", ok |-> ok]
    /\ seen' = seen \cup {new_items[job_ix].url}
    /\ created' = created + 1
    /\ job_ix' = job_ix + 1
    /\ pc' = "publish"
    /\ UNCHANGED <<ageVars, extractVars, configVars, disk, store, jobs_all,
                   new_items, refreshVars, writes, creates>>

\* lines 344-350: after the loop the ledger is written, then the refresh starts
SaveSeen ==
    /\ pc = "publish" /\ job_ix > Len(new_items)
    /\ disk' = save_seen(seen)
    /\ writes' = writes + 1
    /\ pc' = "query"
    /\ UNCHANGED <<ageVars, extractVars, configVars, store, publishVars,
                   refreshVars, creates, notified, posts, last_call>>

(***************************************************************************)
(* The age-refresh flow (update_all_pages_age)                             *)
(***************************************************************************)
\* the number of pages one query of the store returns
PageSize == 2

\* line 314: the refresh alone
UpdateAgesOnly ==
    /\ pc = "main" /\ Len(argv) > 0 /\ argv[1] = "--update-ages"
    /\ pc' = "query"
    /\ UNCHANGED <<ageVars, extractVars, configVars, disk, store, publishVars,
                   refreshVars, writes, creates, notified, posts, last_call>>

\* lines 202-214: one query of the store; the loop goes on while has_more
QueryPagesOk ==
    /\ pc = "query"
    /\ LET from == IF start_cursor = 0 THEN 1 ELSE start_cursor
           upto == IF from + PageSize - 1 < Len(store) THEN from + PageSize - 1
                   ELSE Len(store)
           has_more == upto < Len(store)
       IN  /\ pages' = pages \o SubSeq(store, from, upto)
           /\ start_cursor' = IF has_more THEN upto + 1 ELSE 0
           /\ pc' = IF has_more THEN "query" ELSE "refetch"
    /\ last_call' = [op |-> "query", ok |-> TRUE]
    /\ UNCHANGED <<ageVars, extractVars, configVars, disk, store, publishVars,
                   github_jobs, page_ix, updated_count, error_count,
                   not_found_count, patches, writes, creates, notified, posts>>

\* line 209: raise_for_status raises; nothing catches it
QueryPagesFail ==
    /\ pc = "query"
    /\ last_call' = [op |-> "query", ok |-> FALSE]
    /\ pc' = "raised_query"
    /\ UNCHANGED <<ageVars, extractVars, configVars, disk, store, publishVars,
                   refreshVars, writes, creates, notified, posts>>

\* lines 259-266: the document is fetched and extracted again
RefetchReadmeOk ==
    /\ pc = "refetch"
    /\ github_jobs' = extract_jobs_from_tables(ReadmeOf(readme))
    /\ page_ix' = 1
    /\ updated_count' = 0 /\ error_count' = 0 /\ not_found_count' = 0
    /\ last_call' = [op |-> "fetch", ok |-> TRUE]
    /\ pc' = "refresh"
    /\ UNCHANGED <<ageVars, extractVars, configVars, disk, store, publishVars,
                   pages, start_cursor, patches, writes, creates, notified, posts>>

RefetchReadmeFail ==
    /\ pc = "refetch"
    /\ last_call' = [op |-> "fetch", ok |-> FALSE]
    /\ pc' = "raised_fetch"
    /\ UNCHANGED <<ageVars, extractVars, configVars, disk, store, publishVars,
                   refreshVars, writes, creates, notified, posts>>

\* lines 271-277: the page has a Source Link property of type url, not empty
HasSourceUrl(page) ==
    /\ page.source_link.type = "url"
    /\ ~(page.source_link.url = None \/ page.source_link.url = <<>>)

\* the last row of that url, not the first
find_last_matching_github_job(source_url, rows) ==
    LET hits == {k \in 1..Len(rows) : rows[k].url = source_url}
    IN  IF hits = {} THEN <<>>
        ELSE <<rows[CHOOSE k \in hits : \A j \in hits : j <= k]>>

\* lines 244-249: the first row of that url, in a sequence of at most one job
find_matching_github_job(source_url, rows) ==
    LET hits == {k \in 1..Len(rows) : rows[k].url = source_url}
    IN  IF hits = {} THEN <<>> ELSE <<rows[Min(hits)]>>

\* lines 271-277: a page without a usable source link is passed over
SkipPage ==
    /\ pc = "refresh" /\ page_ix <= Len(pages)
    /\ ~HasSourceUrl(pages[page_ix])
    /\ page_ix' = page_ix + 1
    /\ UNCHANGED <<ageVars, extractVars, configVars, disk, store, publishVars,
                   pages, start_cursor, github_jobs, updated_count, error_count,
                   not_found_count, patches, writes, creates, notified, posts,
                   last_call, pc>>

\* lines 280-284: no row has the url of the page
PageNotFound ==
    /\ pc = "refresh" /\ page_ix <= Len(pages)
    /\ HasSourceUrl(pages[page_ix])
    /\ find_matching_github_job(pages[page_ix].source_link.url, github_jobs) = <<>>
    /\ not_found_count' = not_found_count + 1
    /\ page_ix' = page_ix + 1
    /\ UNCHANGED <<ageVars, extractVars, configVars, disk, store, publishVars,
                   pages, start_cursor, github_jobs, updated_count, error_count,
                   patches, writes, creates, notified, posts, last_call, pc>>

\* lines 287-293, 219-239: the age of the page is overwritten
UpdatePageOk ==
    /\ pc = "refresh" /\ page_ix <= Len(pages)
    /\ HasSourceUrl(pages[page_ix])
    /\ LET found == find_matching_github_job(pages[page_ix].source_link.url,
                                             github_jobs)
           page_id == pages[page_ix].id
       IN  /\ found # <<>>
           /\ patches' = Append(patches, [ix |-> page_ix, id |-> page_id,
                                          age |-> found[1].age_days, ok |-> TRUE])
           /\ store' = [store EXCEPT ![page_id].age = found[1].age_days]
    /\ updated_count' = updated_count + 1
    /\ page_ix' = page_ix + 1
    /\ last_call' = [op |-> "update", ok |-> TRUE]
    /\ UNCHANGED <<ageVars, extractVars, configVars, disk, publishVars, pages,
                   start_cursor, github_jobs, error_count, not_found_count,
                   writes, creates, notified, posts, pc>>

\* lines 236-242, 294-295: the update fails; update_notion_page_age catches
\* the exception and returns False, the page is counted as an error
UpdatePageFail ==
    /\ pc = "refresh" /\ page_ix <= Len(pages)
    /\ HasSourceUrl(pages[page_ix])
    /\ LET found == find_matching_github_job(pages[page_ix].source_link.url,
                                             github_jobs)
       IN  /\ found # <<>>
           /\ patches' = Append(patches, [ix |-> page_ix, id |-> pages[page_ix].id,
                                          age |-> found[1].age_days, ok |-> FALSE])
    /\ error_count' = error_count + 1
    /\ page_ix' = page_ix + 1
    /\ last_call' = [op |-> "update", ok |-> FALSE]
    /\ UNCHANGED <<ageVars, extractVars, configVars, disk, store, publishVars,
                   pages, start_cursor, github_jobs, updated_count,
                   not_found_count, writes, creates, notified, posts, pc>>

\* lines 301-302, then main returns
RefreshDone ==
    /\ pc = "refresh" /\ page_ix > Len(pages)
    /\ pc' = "exit"
    /\ UNCHANGED <<ageVars, extractVars, configVars, disk, store, publishVars,
                   refreshVars, writes, creates, notified, posts, last_call>>

(***************************************************************************)
(* Runs of the process one after the other, on the same document           *)
(***************************************************************************)
MaxRuns == 2

NextRun ==
    /\ Ended /\ run < MaxRuns
    /\ run' = run + 1
    /\ prev_saved' = (writes > 0)
    /\ disk0' = disk
    /\ pc' = "main"
    /\ seen' = {} /\ jobs_all' = <<>> /\ new_items' = <<>> /\ job_ix' = 1
    /\ created' = 0 /\ pages' = <<>> /\ start_cursor' = 0 /\ github_jobs' = <<>>
    /\ page_ix' = 1 /\ updated_count' = 0 /\ error_count' = 0
    /\ not_found_count' = 0 /\ writes' = 0 /\ creates' = <<>> /\ notified' = 0
    /\ posts' = 0 /\ last_call' = NoCall /\ patches' = <<>>
    /\ UNCHANGED <<ageVars, extractVars, argv, webhook, readme, disk, store>>

(***************************************************************************)
(* The documents, ledgers and stores the flows are run on                  *)
(***************************************************************************)
MaxRows == 2

RowUrls == {None, <<"a">>, <<"b">>}

\* what a row shows beside its link: a regional posting, a regional posting
\* for a degree programme, a posting elsewhere
RowKinds ==
    { [title |-> <<"S","W","E"," ","I","n","t","e","r","n">>, age |-> <<"3","d">>,
       location |-> <<"N","e","w"," ","Y","o","r","k",","," ","N","Y">>],
      [title |-> <<"S","W","E"," ","P","h","D">>, age |-> <<"2","w">>,
       location |-> <<"N","e","w"," ","Y","o","r","k",","," ","N","Y">>],
      [title |-> <<"S","W","E"," ","I","n","t","e","r","n">>, age |-> <<"3","d">>,
       location |-> <<"A","u","s","t","i","n",","," ","T","X">>] }

\* the rows of the document: each kind with each link, and the row without
\* anchor as the regional posting only
ReadmeRows ==
    { [company |-> <<"A","c","m","e">>, title |-> t.title, url |-> u,
       location |-> [first |-> t.location, second |-> <<>>], age |-> t.age] :
        <<t, u>> \in { c \in RowKinds \X RowUrls :
                         c[2] = None => (c[1].age = <<"3","d">>
                                         /\ c[1].location[1] = "N") } }

\* a page of the store: entered by hand without the Source Link property, with
\* an empty Source Link, or published earlier for the url "a" or for the url
\* "z" of a posting that has left the document
PageKinds == {"no link", "empty link", "a", "z"}

PageOfKind(kind, id) ==
    [id |-> id, title |-> <<"S","W","E">>, company |-> <<"A","c","m","e">>,
     source_link |->
        IF kind = "no link" THEN [type |-> "none", url |-> None]
        ELSE IF kind = "empty link" THEN [type |-> "url", url |-> None]
        ELSE [type |-> "url", url |-> <<kind>>],
     age |-> <<"9","d">>, location |-> <<"N","Y","C">>]

\* what a first run finds: nothing (no ledger file, an empty store), or the
\* ledger and the store earlier runs have left
Worlds ==
    { [disk |-> None, store |-> <<>>],
      [disk |-> <<<<"a">>>>,
       store |-> <<PageOfKind("no link", 1), PageOfKind("z", 2), PageOfKind("a", 3)>>] }

Init ==
    /\ AgeIdle /\ ExtractIdle
    /\ pc = "main" /\ argv = <<>>
    /\ webhook \in BOOLEAN
    /\ \E n \in 0..MaxRows : readme \in [1..n -> ReadmeRows]
    /\ \E w \in Worlds : disk = w.disk /\ store = w.store
    /\ seen = {} /\ jobs_all = <<>> /\ new_items = <<>> /\ job_ix = 1
    /\ created = 0 /\ pages = <<>> /\ start_cursor = 0 /\ github_jobs = <<>>
    /\ page_ix = 1 /\ updated_count = 0 /\ error_count = 0 /\ not_found_count = 0
    /\ run = 1 /\ prev_saved = FALSE /\ disk0 = disk /\ writes = 0
    /\ creates = <<>> /\ notified = 0 /\ posts = 0 /\ last_call = NoCall
    /\ patches = <<>>

Next ==
    \/ LoadSeen
    \/ FetchReadmeOk
    \/ FetchReadmeFail
    \/ CreatePageOk
    \/ CreatePageFail
    \/ Notify
    \/ SaveSeen
    \/ QueryPagesOk
    \/ QueryPagesFail
    \/ RefetchReadmeOk
    \/ RefetchReadmeFail
    \/ SkipPage
    \/ PageNotFound
    \/ UpdatePageOk
    \/ UpdatePageFail
    \/ RefreshDone
    \/ NextRun

Spec == Init /\ [][Next]_vars

(***************************************************************************)
(* The refresh on its own (--update-ages), on a store of at most MaxPages  *)
(* pages of every kind                                                     *)
(***************************************************************************)
MaxPages == 2

RefreshInit ==
    /\ AgeIdle /\ ExtractIdle
    /\ pc = "main" /\ argv = <<"--update-ages">>
    /\ webhook = FALSE
    /\ \E n \in 0..MaxRows : readme \in [1..n -> ReadmeRows]
    /\ disk = None
    /\ \E n \in 0..MaxPages : \E kinds \in [1..n -> PageKinds] :
          store = [k \in 1..n |-> PageOfKind(kinds[k], k)]
    /\ seen = {} /\ jobs_all = <<>> /\ new_items = <<>> /\ job_ix = 1
    /\ created = 0 /\ pages = <<>> /\ start_cursor = 0 /\ github_jobs = <<>>
    /\ page_ix = 1 /\ updated_count = 0 /\ error_count = 0 /\ not_found_count = 0
    /\ run = 1 /\ prev_saved = FALSE /\ disk0 = disk /\ writes = 0
    /\ creates = <<>> /\ notified = 0 /\ posts = 0 /\ last_call = NoCall
    /\ patches = <<>>

RefreshNext ==
    \/ UpdateAgesOnly
    \/ QueryPagesOk
    \/ QueryPagesFail
    \/ RefetchReadmeOk
    \/ RefetchReadmeFail
    \/ SkipPage
    \/ PageNotFound
    \/ UpdatePageOk
    \/ UpdatePageFail
    \/ RefreshDone

SpecRefresh == RefreshInit /\ [][RefreshNext]_vars

(***************************************************************************)
(* C1, C2, C3, C4, C6, C10: the publish flow                               *)
(***************************************************************************)
\* the ledger as it was loaded by the run
LoadedLedger == IF disk0 = None THEN {} ELSE Range(disk0)

\* the ledger the file holds now
PersistedLedger == IF disk = None THEN {} ELSE Range(disk)

CreatedUrls == {creates[k].url : k \in DOMAIN creates}

\* C1: when the process ends after some record was created, the ledger was
\* written exactly once in the run and every url whose record was created in
\* the run is in the persisted ledger, also when a later create call failed.
C1_CreatedUrlsPersisted ==
    (Ended /\ creates # <<>>) =>
        /\ writes = 1
        /\ CreatedUrls \subseteq PersistedLedger

\* C2: in a run that follows a run which persisted the ledger, on the same
\* document, no create call is made, no record created, no notification sent,
\* and the ledger file stays what the previous run persisted.
C2_SecondRunIdempotent ==
    (run >= 2 /\ prev_saved) =>
        /\ new_items = <<>>
        /\ creates = <<>>
        /\ notified = 0 /\ posts = 0
        /\ last_call.op # "create"
        /\ disk = disk0

\* a second run that went through to its end after a first run that published
C2_Witness ==
    /\ run = 2 /\ prev_saved /\ pc = "exit" /\ writes = 1
    /\ \E k \in DOMAIN store : store[k].source_link.url = <<"b">>
    /\ disk0 # None /\ <<"b">> \in Range(disk0)

\* the row has a link, its url is not in the loaded ledger, its location is regional
Qualifies(job) ==
    /\ job.url # None /\ job.url # <<>>
    /\ job.url \notin LoadedLedger
    /\ looks_like_nyc(job.location)

NewYorkNY == <<"N","e","w"," ","Y","o","r","k",","," ","N","Y">>

AustinTX == <<"A","u","s","t","i","n",","," ","T","X">>

\* the publish loop of the run is over and the ledger written
Published == writes = 1

\* C3: a record is created, a notification sent and a url added to the ledger
\* only for an extracted row that has a link, is absent from the loaded ledger
\* and is regional; a lone row without anchor, already in the ledger or located
\* in "Austin, TX" creates nothing and leaves the ledger as it was; a lone
\* qualifying row ("New York, NY", age "3d") gives exactly one record with age
\* "3d", one ledger entry and one notification (posted when the endpoint is
\* configured).
C3_OnlyQualifyingRowsPublished ==
    /\ \A k \in DOMAIN creates :
          /\ \E j \in DOMAIN jobs_all : jobs_all[j] = creates[k]
          /\ Qualifies(creates[k])
    /\ notified <= Len(creates)
    /\ posts <= notified
    /\ seen \subseteq LoadedLedger \cup CreatedUrls
    /\ PersistedLedger \subseteq LoadedLedger \cup CreatedUrls
    /\ (Len(jobs_all) = 1 /\ ~Qualifies(jobs_all[1])) =>
          /\ creates = <<>> /\ notified = 0
          /\ last_call.op # "create"
          /\ PersistedLedger = LoadedLedger
    /\ (Len(jobs_all) = 1 /\ jobs_all[1].location = AustinTX) => creates = <<>>
    /\ (Len(jobs_all) = 1 /\ Qualifies(jobs_all[1]) /\ Published) =>
          /\ creates = <<jobs_all[1]>>
          /\ store[Len(store)].source_link.url = jobs_all[1].url
          /\ store[Len(store)].age = jobs_all[1].age_days
          /\ (jobs_all[1].age = <<"3","d">> => store[Len(store)].age = <<"3","d">>)
          /\ PersistedLedger = LoadedLedger \cup {jobs_all[1].url}
          /\ notified = 1
          /\ posts = IF webhook THEN 1 ELSE 0

\* the lone qualifying row of the scenario was published
C3_Witness ==
    /\ Len(jobs_all) = 1 /\ Qualifies(jobs_all[1]) /\ Published /\ webhook
    /\ jobs_all[1].location = NewYorkNY /\ jobs_all[1].age = <<"3","d">>
    /\ store[Len(store)].age = <<"3","d">> /\ posts = 1

\* the title carries a degree-programme marker
HasDegreeMarker(title) ==
    \E k \in 1..(Len(title) - 2) : SubSeq(title, k, k + 2) = <<"P","h","D">>

\* C4 as stated: no record is created, no notification sent and no url added
\* to the ledger for a row whose title carries a disqualifying marker.
C4_DegreeTitlesSkipped ==
    \A k \in DOMAIN creates : ~HasDegreeMarker(creates[k].title)

\* C4 as amended: the title plays no part in the filter; once the publish loop
\* is over, every row whose title carries the marker and that has a link, is
\* absent from the loaded ledger and is regional has its record created, its
\* notification made and its url in the persisted ledger, like any other row.
C4_DegreeTitlesPublished ==
    Published =>
        /\ \A j \in DOMAIN jobs_all :
              (HasDegreeMarker(jobs_all[j].title) /\ Qualifies(jobs_all[j])) =>
                  /\ \E k \in DOMAIN creates : creates[k] = jobs_all[j]
                  /\ jobs_all[j].url \in PersistedLedger
        /\ notified = Len(creates)

C4_Witness ==
    /\ Published
    /\ \E j \in DOMAIN jobs_all :
          /\ HasDegreeMarker(jobs_all[j].title) /\ Qualifies(jobs_all[j])
          /\ \E k \in DOMAIN store : store[k].title = jobs_all[j].title

\* C6: whether the post of a notification succeeds, fails or is disabled, the
\* run is not aborted by it: the url of every posting whose record was created
\* and notified is in the ledger, the loop is back at the next posting, and the
\* ledger that is persisted holds the url of every record created.
C6_NotifyBestEffort ==
    /\ pc # "raised_notify"
    /\ (last_call.op = "notify" /\ ~last_call.ok) =>
          /\ pc \in {"publish", "query"}
          /\ new_items[job_ix - 1].url \in seen
    /\ pc = "publish" =>
          /\ notified = job_ix - 1
          /\ notified = Len(creates)
          /\ \A j \in 1..(job_ix - 1) : new_items[j].url \in seen
    /\ pc = "notify" => notified = Len(creates) - 1
    /\ Published => (notified = Len(new_items) /\ CreatedUrls \subseteq PersistedLedger)
    /\ pc = "exit" => Published

\* a post failed with a posting still to publish, and the loop went on
C6_Witness ==
    /\ last_call = [op |-> "notify", ok |-> FALSE]
    /\ pc = "publish" /\ job_ix = 2 /\ Len(new_items) = 2
    /\ new_items[1].url \in seen

\* C10: within one run at most one record is created per url.
C10_OneRecordPerUrl ==
    \A j, k \in DOMAIN creates : j # k => creates[j].url # creates[k].url

(***************************************************************************)
(* C5: transport failures                                                  *)
(***************************************************************************)
\* C5 as stated: after a failed fetch, create, query or update call the
\* process has ended with the exception.
C5_TransportFailuresAbort ==
    (~last_call.ok /\ last_call.op \in {"fetch", "create", "query", "update"})
        => pc \in Raised

\* C5 as amended: a failed fetch, create or query call ends the process with
\* the exception, and nothing is called after it; a failed update call is
\* caught: the page is counted as an error, the update is not retried and the
\* flow goes on with the next page.
C5_FailuresAbortExceptUpdate ==
    /\ (~last_call.ok /\ last_call.op = "fetch") => pc = "raised_fetch"
    /\ (~last_call.ok /\ last_call.op = "create") => pc = "raised_create"
    /\ (~last_call.ok /\ last_call.op = "query") => pc = "raised_query"
    /\ pc \in Raised => ~last_call.ok
    /\ (~last_call.ok /\ last_call.op = "update") =>
          /\ pc \in {"refresh", "exit"}
          /\ error_count >= 1
          /\ patches[Len(patches)].ix = page_ix - 1
    /\ pc \in {"refresh", "exit"} =>
          /\ error_count = Cardinality({k \in DOMAIN patches : ~patches[k].ok})
          /\ \A j, k \in DOMAIN patches : j # k => patches[j].ix # patches[k].ix

\* an update failed and the refresh went on to its end
C5_Witness ==
    /\ pc = "exit" /\ error_count >= 1 /\ updated_count >= 1
    /\ \E k \in DOMAIN patches : ~patches[k].ok /\ k < Len(patches)

(***************************************************************************)
(* C7: the age refresh                                                     *)
(***************************************************************************)
RowsWithUrl(url) == {j \in DOMAIN github_jobs : github_jobs[j].url = url}

PatchesOf(k) == {n \in DOMAIN patches : patches[n].ix = k}

\* C7: for every page the refresh has gone through that has a source link: if
\* some extracted row has its url, exactly one update was issued for it, for its
\* id, with the age_days of the (first) row of that url; if none has, no update
\* was issued, the page is counted as not found, and the flow has gone on: the
\* refresh loop never ends the run.
C7_RefreshByUrl ==
    pc \in {"refresh", "exit"} =>
        /\ \A k \in 1..(page_ix - 1) :
              LET url == pages[k].source_link.url
              IN  IF ~HasSourceUrl(pages[k]) THEN PatchesOf(k) = {}
                  ELSE IF RowsWithUrl(url) = {} THEN PatchesOf(k) = {}
                  ELSE /\ Cardinality(PatchesOf(k)) = 1
                       /\ \A n \in PatchesOf(k) :
                             /\ patches[n].id = pages[k].id
                             /\ patches[n].age = github_jobs[Min(RowsWithUrl(url))].age_days
                             /\ patches[n].ok => store[pages[k].id].age = patches[n].age
        /\ not_found_count =
              Cardinality({k \in 1..(page_ix - 1) :
                             HasSourceUrl(pages[k])
                             /\ RowsWithUrl(pages[k].source_link.url) = {}})
        /\ \A n \in DOMAIN patches : patches[n].ix < page_ix
        /\ pc = "exit" => page_ix = Len(pages) + 1

\* a page without a row was counted, and a later page updated from a row, of
\* two rows of its url that differ in age
C7_Witness ==
    /\ pc = "exit" /\ not_found_count = 1 /\ Len(pages) = 2
    /\ ~(RowsWithUrl(pages[1].source_link.url) # {})
    /\ Cardinality(RowsWithUrl(pages[2].source_link.url)) = 2
    /\ github_jobs[1].age_days # github_jobs[2].age_days
    /\ patches = <<[ix |-> 2, id |-> 2, age |-> github_jobs[1].age_days, ok |-> TRUE]>>

====
